---- MODULE Spec2Model ----
(***************************************************************************)
(* A model of the LIRC command-line client (client.c): the foreground      *)
(* thread (main, client_readline, handle_send_msg), the receive thread     *)
(* (rx_thread and the event callback handle_irc_msg), the SIGINT handler   *)
(* and the pipe through which the other two hand output and the shutdown   *)
(* marker to the foreground thread.                                        *)
(*                                                                         *)
(* The library (irc.c) is not part of the sources at hand: irc_client_new, *)
(* irc_client_connect, irc_client_login, irc_client_auth, irc_loop,        *)
(* irc_client_set_nick and irc_client_destroy are modelled from the        *)
(* specification's description of the engine.                              *)
(***************************************************************************)
EXTENDS Integers, Sequences, FiniteSets

\* ------------------------------------------------------------------ bounds
MaxClients == 2    \* client objects irc_client_new can hand out in one run
MaxThreads == 2    \* receive threads pthread_create can start in one run
MaxMsgs == 1       \* protocol messages the server delivers in one run
MaxCmds == 1       \* command lines the user enters in one run
MaxSigint == 1     \* SIGINTs delivered in one run
PipeCap == 4       \* bytes the pipe holds before a write blocks
RlLen == 4         \* the len main passes to client_readline: sizeof(input) - 1, scaled
ReadMax == 3       \* bytes one read of the pipe returns: sizeof(outputbuf) - 1, scaled

ClientIds == 1..MaxClients
ThreadIds == 1..MaxThreads
NoClient == 0
NoThread == 0
\* What a failed pthread_create may leave in rx_thread_id: no thread's id.
InvalidThread == MaxThreads + 1

\* ------------------------------------------------------------- strings
Nicks == {"alice", "bob"}
Chans == {"#c"}

\* update_prompt's three formats, as the token sequence snprintf produces.
Render(n, h, f) ==
  IF n # ""
    THEN IF f # "" THEN <<n, "@", h, " (", f, ")> ">>
                   ELSE <<n, "@", h, "> ">>
    ELSE <<h, "> ">>

\* client_prompt is written front to back: the model keeps its first and its
\* second half, each holding the rendering it was last written from.
Whole(r) == <<r, r>>
Complete(p) == p[1] = p[2]

\* The records written to the pipe, as bytes: "t" a timestamp written by
\* print_time, "c" a character other than newline, "n" a newline, "a" a bell,
\* "z" the zero byte.
TS == <<"t">>
LINE == <<"c", "n">>
BELL == <<"a">>
WAKE == <<"z">>
LOG == <<"l", "n">>

\* case 'd' of main's getopt loop, taken n times from debug_level = level: the
\* levels main goes on with, none when it has returned -1 at the maximum.
RECURSIVE GetoptD(_, _)
GetoptD(level, n) ==
  IF n = 0 THEN {level}
  ELSE IF level >= 10 THEN {}
  ELSE GetoptD(level + 1, n - 1)

\* How many -d options the command line carries in this model.
DOpts == {0, 10, 11}

VARIABLES
  pcMain,          \* position of the foreground thread
  password,        \* the caller's copy of the password: "none", "secret", "zeroed"
  fgchan,          \* main's fgchan: the -f option's channel, "" when it was not given
  client,          \* main's client pointer
  newc,            \* handle_send_msg's local client while /server runs
  cstate,          \* per client object: "none", "live", "destroyed"
  connected,       \* per client object: the connected flag
  nick,            \* per client object: the nickname
  host,            \* per client object: the hostname
  thr,             \* per receive thread: its position and locals
  rx_thread_id,    \* the static pthread_t
  iopipe,          \* bytes written to iopipe[1] and not yet read from iopipe[0]
  pipeOpen,        \* both ends of the pipe are open
  fully_started,
  shutting_down,
  do_not_disturb,
  fg_chan,
  client_prompt,
  outcome,         \* how main ended or left its loop; "none" while it has not
  cmd,             \* the command line handle_send_msg is working on
  fgOut,           \* records the foreground thread has still to write
  fgNext,          \* where the foreground thread goes once fgOut is written
  debug_level,
  auths,           \* per client object: irc_client_login / irc_client_auth calls made on it
  nMsgs, nCmds, nSigint,
  rl               \* client_readline's locals and main's input array, key by key

\* Every variable but rl.
mainVars == <<pcMain, password, fgchan, client, newc, cstate, connected, nick,
              host, thr, rx_thread_id, iopipe, pipeOpen, fully_started,
              shutting_down, do_not_disturb, fg_chan, client_prompt, outcome,
              cmd, fgOut, fgNext, debug_level, auths, nMsgs, nCmds, nSigint>>

vars == <<mainVars, rl>>

NoCmd == [name |-> "none", arg |-> ""]

\* client_readline is not running: main's input array (sizeof(input) cells)
\* holds nothing yet. In Spec a line arrives whole (FgInput) and rl stays as
\* it is here; ReadlineSpec follows client_readline key by key.
RlIdle == [pc |-> "idle", num_read |-> 0, len |-> 0, buf |-> 0, res |-> 0,
           input |-> [i \in 0..RlLen |-> "?"]]
NoMsg == [type |-> "none", prefix |-> <<>>, body |-> <<>>, num |-> "", ctcp |-> ""]
NoTx == [op |-> "none", data |-> <<>>]
IdleThread == [pc |-> "none", client |-> NoClient, cancel |-> FALSE,
               out |-> <<>>, fd |-> "pipe", msg |-> NoMsg, tx |-> NoTx]

\* The state once pipe(iopipe) has succeeded (main, line 808): options are
\* parsed, no client exists yet, client_prompt holds its initializer.
Init ==
  /\ pcMain = "new"
  /\ password \in {"none", "secret"}
  /\ fgchan \in {""} \cup Chans
  /\ client = NoClient
  /\ newc = NoClient
  /\ cstate = [c \in ClientIds |-> "none"]
  /\ connected = [c \in ClientIds |-> FALSE]
  /\ nick = [c \in ClientIds |-> ""]
  /\ host = [c \in ClientIds |-> ""]
  /\ thr = [t \in ThreadIds |-> IdleThread]
  /\ rx_thread_id = NoThread
  /\ iopipe = <<>>
  /\ pipeOpen = TRUE
  /\ fully_started = 0
  /\ shutting_down = 0
  /\ do_not_disturb = 0
  /\ fg_chan = ""
  /\ client_prompt = Whole(<<"IRC> ">>)
  /\ outcome = "none"
  /\ cmd = NoCmd
  /\ fgOut = <<>>
  /\ fgNext = "none"
  /\ debug_level \in UNION {GetoptD(0, n) : n \in DOpts}
  /\ auths = [c \in ClientIds |-> 0]
  /\ nMsgs = 0
  /\ nCmds = 0
  /\ nSigint = 0
  /\ rl = RlIdle

\* ----------------------------------------------------------- helpers
FreeClients == {c \in ClientIds : cstate[c] = "none"}
FreshClient == CHOOSE c \in FreeClients : \A d \in FreeClients : c <= d
FreeThreads == {t \in ThreadIds : thr[t].pc = "none"}
FreshThread == CHOOSE t \in FreeThreads : \A u \in FreeThreads : t <= u

\* update_prompt(c), called with fg_chan holding f.
update_prompt(c, f) == Whole(Render(nick[c], host[c], f))

\* The descriptor a log or print call writes to: read once per call.
OutFd == IF fully_started = 1 THEN "pipe" ELSE "stdout"

\* A thread's locals when pthread_create has started rx_thread on client c and
\* it has entered irc_loop (fopen of the client log is taken to succeed).
StartedThread(c) == [pc |-> "loop", client |-> c, cancel |-> FALSE,
                     out |-> <<>>, fd |-> "pipe", msg |-> NoMsg, tx |-> NoTx]

\* ----------------------------------------------------- main: startup
\* The ways the program's help names to start it: with a server, a username
\* and a password, or with a server alone (the username is then "").
Username == IF password = "none" THEN "" ELSE "alice"

\* irc_client_new with the command line's server, port, username, password,
\* then update_prompt.
MainNew ==
  /\ pcMain = "new"
  /\ \/ /\ LET c == FreshClient
                 u == Username
             IN
             /\ client' = c
             /\ cstate' = [cstate EXCEPT ![c] = "live"]
             /\ nick' = [nick EXCEPT ![c] = u]
             /\ host' = [host EXCEPT ![c] = "h1"]
             /\ client_prompt' = Whole(Render(u, "h1", fg_chan))
        /\ pcMain' = "flags"
        /\ UNCHANGED outcome
     \/ /\ pcMain' = "closepipes"
        /\ outcome' = "new_failed"
        /\ UNCHANGED <<client, cstate, nick, host, client_prompt>>
  /\ UNCHANGED <<password, newc, connected, thr, rx_thread_id, iopipe,
                 pipeOpen, rl, fgchan, debug_level, auths, fully_started, shutting_down, do_not_disturb,
                 fg_chan, cmd, fgOut, fgNext, nMsgs, nCmds, nSigint>>

\* irc_client_set_flags: on failure main goes to closepipes.
MainFlags ==
  /\ pcMain = "flags"
  /\ \/ pcMain' = "connect" /\ UNCHANGED outcome
     \/ pcMain' = "closepipes" /\ outcome' = "flags_failed"
  /\ UNCHANGED <<password, client, newc, cstate, connected, nick, host,
                 thr, rx_thread_id, iopipe, pipeOpen, rl, fgchan, debug_level, auths, fully_started,
                 shutting_down, do_not_disturb, fg_chan, client_prompt, cmd, fgOut, fgNext, nMsgs, nCmds, nSigint>>

\* irc_client_autojoin and irc_client_connect.
MainConnect ==
  /\ pcMain = "connect"
  /\ \/ /\ connected' = [connected EXCEPT ![client] = TRUE]
        /\ pcMain' = "login"
        /\ UNCHANGED outcome
     \/ /\ pcMain' = "closepipes"
        /\ outcome' = "connect_failed"
        /\ UNCHANGED connected
  /\ UNCHANGED <<password, client, newc, cstate, nick, host, thr,
                 rx_thread_id, iopipe, pipeOpen, rl, fgchan, debug_level, auths, fully_started, shutting_down,
                 do_not_disturb, fg_chan, client_prompt, cmd, fgOut,
                 fgNext, nMsgs, nCmds, nSigint>>

\* A startup that goes on to pthread_create although irc_client_login failed.
MainLogin_IgnoresFailure ==
  /\ pcMain = "login"
  /\ IF password # "none"
       THEN /\ password' = "zeroed"
            /\ auths' = [auths EXCEPT ![client] = @ + 1]
            /\ pcMain' = "spawn"
            /\ \/ /\ fg_chan' = IF fgchan # "" THEN fgchan ELSE fg_chan
                  /\ UNCHANGED outcome
               \/ /\ outcome' = "auth_failed"
                  /\ UNCHANGED fg_chan
       ELSE /\ pcMain' = "spawn"
            /\ UNCHANGED <<password, fg_chan, outcome, auths>>
  /\ UNCHANGED <<client, newc, cstate, connected, nick, host, thr,
                 rx_thread_id, iopipe, pipeOpen, rl, fgchan, debug_level,
                 fully_started, shutting_down,
                 do_not_disturb, client_prompt, cmd, fgOut, fgNext,
                 nMsgs, nCmds, nSigint>>

\* With a password: zero the caller's copy, irc_client_login, and on success
\* set_fg_chan(fgchan) when -f was given; a failed login returns -1 at once.
\* Without a password nothing happens here.
MainLogin ==
  /\ pcMain = "login"
  /\ IF password # "none"
       THEN /\ password' = "zeroed"
            /\ auths' = [auths EXCEPT ![client] = @ + 1]
            /\ \/ /\ fg_chan' = IF fgchan # "" THEN fgchan ELSE fg_chan
                  /\ pcMain' = "spawn"
                  /\ UNCHANGED outcome
               \/ /\ pcMain' = "done"
                  /\ outcome' = "auth_failed"
                  /\ UNCHANGED fg_chan
       ELSE /\ pcMain' = "spawn"
            /\ UNCHANGED <<password, fg_chan, outcome, auths>>
  /\ UNCHANGED <<client, newc, cstate, connected, nick, host, thr,
                 rx_thread_id, iopipe, pipeOpen, rl, fgchan, debug_level,
                 fully_started, shutting_down,
                 do_not_disturb, client_prompt, cmd, fgOut, fgNext,
                 nMsgs, nCmds, nSigint>>

\* pthread_create(&rx_thread_id, NULL, rx_thread, client); failure returns -1.
MainSpawn ==
  /\ pcMain = "spawn"
  /\ \/ /\ LET t == FreshThread IN
             /\ thr' = [thr EXCEPT ![t] = StartedThread(client)]
             /\ rx_thread_id' = t
        /\ pcMain' = "ready"
        /\ UNCHANGED outcome
     \/ /\ pcMain' = "done"
        /\ outcome' = "spawn_failed"
        /\ UNCHANGED <<thr, rx_thread_id>>
  /\ UNCHANGED <<password, client, newc, cstate, connected, nick, host,
                 iopipe, pipeOpen, rl, fgchan, debug_level, auths, fully_started, shutting_down,
                 do_not_disturb, fg_chan, client_prompt, cmd, fgOut,
                 fgNext, nMsgs, nCmds, nSigint>>

\* set_term, signal(SIGINT, __sigint_handler), fully_started = 1.
MainReady ==
  /\ pcMain = "ready"
  /\ fully_started' = 1
  /\ pcMain' = "readline"
  /\ UNCHANGED <<password, client, newc, cstate, connected, nick, host,
                 thr, rx_thread_id, iopipe, pipeOpen, rl, fgchan, debug_level, auths, shutting_down,
                 do_not_disturb, fg_chan, client_prompt, outcome, cmd,
                 fgOut, fgNext, nMsgs, nCmds, nSigint>>

\* ------------------------------------------------------ receive thread
\* The process runs: main has not returned and nothing has aborted.
Running == pcMain \notin {"done", "aborted"}

Terminated(t) == thr[t].pc \in {"returned", "cancelled", "joined"}

\* The messages irc_loop hands to handle_irc_msg in this model.
Prefixes == {<<"alice", "!", "u@h">>, <<"bob">>}
Msg(ty, pre, bo, nu, ct) ==
  [type |-> ty, prefix |-> pre, body |-> bo, num |-> nu, ctcp |-> ct]
Msgs ==
  {Msg("NICK", pre, <<":", n>>, "", "") : pre \in Prefixes, n \in Nicks}
  \cup {Msg("NUMERIC", <<"srv">>, <<"x">>, nu, "") : nu \in {"001", "999"}}
  \cup {Msg("PRIVMSG", <<"bob", "!", "u@h">>, <<"hi">>, "", ct) :
           ct \in {"", "PING", "TIME", "VERSION"}}
  \cup {Msg("NOTICE", <<"bob", "!", "u@h">>, <<"hi">>, "", ct) :
           ct \in {"PING", "TIME"}}
  \cup {Msg(ty, <<"srv">>, <<"x">>, "", "") : ty \in {"PING", "JOIN", "WALLOPS"}}

\* strsep(&tmp, "!") on the copied prefix: what stands before the first "!".
RealNick(prefix) ==
  IF prefix = <<>> \/ prefix[1] = "!" THEN "" ELSE prefix[1]

\* !strncasecmp(body, nickname, strlen(nickname)): the body starts with the nickname.
Mentioned(body, n) == n = "" \/ (body # <<>> /\ body[1] = n)

\* One write of a pending record by the receive thread. print_time is the
\* first write of irc_print and of __client_log, which pick the descriptor
\* from fully_started before it; the record's body goes to the same descriptor.
RxWrite(t) ==
  /\ Running
  /\ thr[t].out # <<>>
  /\ ~thr[t].cancel
  /\ LET rec == Head(thr[t].out)
         fd == IF rec = TS THEN OutFd ELSE thr[t].fd
     IN /\ fd = "pipe" => Len(iopipe) + Len(rec) <= PipeCap
        /\ iopipe' = IF fd = "pipe" THEN iopipe \o rec ELSE iopipe
        /\ thr' = [thr EXCEPT ![t].out = Tail(@), ![t].fd = fd]
  /\ UNCHANGED <<pcMain, password, client, newc, cstate, connected, nick,
                 host, rx_thread_id, pipeOpen, rl, fgchan, debug_level, auths, fully_started, shutting_down,
                 do_not_disturb, fg_chan, client_prompt, outcome, cmd,
                 fgOut, fgNext, nMsgs, nCmds, nSigint>>

\* What one call of handle_irc_msg produces: the records it writes with
\* irc_print (TS, LINE or TS, BELL) or client_log (TS, LOG), and the reply it
\* hands to the library, if any.
Shows(recs) == [out |-> recs, tx |-> NoTx]
Replies(o, d) == [out |-> <<>>, tx |-> [op |-> o, data |-> d]]

\* The numerics handle_irc_msg prints; any other gets the "Unhandled numeric"
\* warning.
HandledNumerics == {"001", "372", "404"}

\* A switch without its default: a numeric it does not know is passed over.
HandleNumeric_Quiet(m) ==
  IF m.num \in HandledNumerics THEN Shows(<<TS, LINE>>) ELSE Shows(<<>>)

\* case IRC_NUMERIC.
HandleNumeric(m) ==
  IF m.num \in HandledNumerics THEN Shows(<<TS, LINE>>) ELSE Shows(<<TS, LOG>>)

\* A callback that answers a CTCP PING whatever command carried it.
HandleCtcp_AnswersNotice(m) ==
  CASE m.ctcp = "PING" -> Replies("ctcp_reply", <<"PING">> \o m.body)
    [] m.ctcp = "TIME" /\ m.type = "PRIVMSG" -> Replies("ctcp_reply", <<"TIME", "now">>)
    [] m.ctcp = "ACTION" \/ m.type # "PRIVMSG" -> Shows(<<TS, LINE>>)
    [] OTHER -> Shows(<<TS, LOG>>)

\* A parsed CTCP payload: on PRIVMSG it is a request (ACTION is printed, PING is
\* answered with the data received, TIME with the local time, anything else
\* is logged as unhandled); on NOTICE it is a reply and is printed.
HandleCtcp(m) ==
  IF m.type = "PRIVMSG"
    THEN CASE m.ctcp = "ACTION" -> Shows(<<TS, LINE>>)
           [] m.ctcp = "PING" -> Replies("ctcp_reply", <<"PING">> \o m.body)
           [] m.ctcp = "TIME" -> Replies("ctcp_reply", <<"TIME", "now">>)
           [] OTHER -> Shows(<<TS, LOG>>)
    ELSE Shows(<<TS, LINE>>)

\* case IRC_CMD_PRIVMSG, IRC_CMD_NOTICE: the bell on a mention unless
\* do_not_disturb, then the CTCP payload or the line.
HandleChat(m, n, dnd) ==
  LET bell == IF dnd = 0 /\ Mentioned(m.body, n) THEN <<TS, BELL>> ELSE <<>>
      rest == IF m.ctcp # "" THEN HandleCtcp(m) ELSE Shows(<<TS, LINE>>)
  IN [out |-> bell \o rest.out, tx |-> rest.tx]

\* The switch of handle_irc_msg. A NICK message is printed here and goes on
\* to the nickname comparison.
Handle(m, n, dnd) ==
  CASE m.type = "NUMERIC" -> HandleNumeric(m)
    [] m.type \in {"PRIVMSG", "NOTICE"} -> HandleChat(m, n, dnd)
    [] m.type = "PING" -> Replies("pong", m.body)
    [] m.type \in {"JOIN", "PART", "QUIT", "KICK", "NICK", "MODE", "ERROR",
                   "TOPIC"} -> Shows(<<TS, LINE>>)
    [] OTHER -> Shows(<<TS, LOG>>)

\* irc_loop reads a line and calls handle_irc_msg(client, m).
RxRecv(t, m) ==
  /\ Running
  /\ thr[t].pc = "loop"
  /\ thr[t].out = <<>>
  /\ ~thr[t].cancel
  /\ cstate[thr[t].client] = "live"
  /\ connected[thr[t].client]
  /\ nMsgs < MaxMsgs
  /\ nMsgs' = nMsgs + 1
  /\ LET h == Handle(m, nick[thr[t].client], do_not_disturb)
     IN thr' = [thr EXCEPT
                  ![t].out = h.out,
                  ![t].tx = h.tx,
                  ![t].msg = IF m.type = "NICK" THEN m ELSE NoMsg,
                  ![t].pc = IF m.type = "NICK" THEN "cb_nick"
                            ELSE IF h.tx # NoTx THEN "cb_send" ELSE "loop"]
  /\ UNCHANGED <<pcMain, password, client, newc, cstate, connected, nick,
                 host, rx_thread_id, iopipe, pipeOpen, rl, fgchan, debug_level, auths, fully_started,
                 shutting_down, do_not_disturb, fg_chan, client_prompt, outcome, cmd, fgOut, fgNext, nCmds, nSigint>>

\* __client_log: the records one call writes. ERR, WARN and INFO are always
\* written; DEBUG only when debug_level >= sublevel.
client_log(level, sublevel) ==
  IF level = "DEBUG" /\ ~(debug_level >= sublevel) THEN <<>> ELSE <<TS, LOG>>

\* The calls the library makes of the log callback in this model.
LogCalls ==
  [level : {"ERR", "WARN", "INFO"}, sublevel : {0}]
  \cup [level : {"DEBUG"}, sublevel : {1, 10}]

\* irc_loop reports a line it has read through the log callback set with
\* irc_log_callback(__client_log): the call runs on the receive thread.
LibLog(t, lc) ==
  /\ Running
  /\ thr[t].pc = "loop"
  /\ thr[t].out = <<>>
  /\ ~thr[t].cancel
  /\ cstate[thr[t].client] = "live"
  /\ connected[thr[t].client]
  /\ nMsgs < MaxMsgs
  /\ nMsgs' = nMsgs + 1
  /\ thr' = [thr EXCEPT ![t].out = client_log(lc.level, lc.sublevel)]
  /\ UNCHANGED <<pcMain, password, fgchan, client, newc, cstate, connected,
                 nick, host, rx_thread_id, iopipe, pipeOpen, rl, debug_level,
                 auths, fully_started, shutting_down, do_not_disturb, fg_chan,
                 client_prompt, outcome, cmd, fgOut, fgNext, nCmds, nSigint>>

\* irc_client_pong / irc_client_ctcp_reply is entered: the callback is inside
\* the library's send. client.c takes no lock around it.
RxSend(t) ==
  /\ Running
  /\ thr[t].pc = "cb_send"
  /\ thr[t].out = <<>>
  /\ ~thr[t].cancel
  /\ thr' = [thr EXCEPT ![t].pc = "sending"]
  /\ UNCHANGED <<pcMain, password, client, newc, cstate, connected, nick,
                 host, rx_thread_id, iopipe, pipeOpen, rl, fgchan, debug_level, auths, fully_started, shutting_down, do_not_disturb, fg_chan,
                 client_prompt, outcome, cmd, fgOut, fgNext, nMsgs, nCmds,
                 nSigint>>

\* The send returns and handle_irc_msg with it.
RxSent(t) ==
  /\ Running
  /\ thr[t].pc = "sending"
  /\ thr' = [thr EXCEPT ![t].pc = "loop", ![t].tx = NoTx]
  /\ UNCHANGED <<pcMain, password, client, newc, cstate, connected, nick,
                 host, rx_thread_id, iopipe, pipeOpen, rl, fgchan, debug_level, auths, fully_started, shutting_down, do_not_disturb, fg_chan,
                 client_prompt, outcome, cmd, fgOut, fgNext, nMsgs, nCmds,
                 nSigint>>

\* A callback that takes every NICK message for its own: the comparison with
\* the local nickname is missing.
OwnNick_Always(m, c) == m.type = "NICK"

\* Whether the NICK message m is about the client's own nickname:
\* !strcmp(realnick, irc_client_nickname(client)).
OwnNick(m, c) == RealNick(m.prefix) = nick[c]

\* case IRC_CMD_NICK after its irc_print: on a match irc_client_set_nick with
\* the body less its leading ':', and update_prompt starts rewriting
\* client_prompt (its first half is written here). A thread whose client was
\* destroyed under it reads freed memory: the comparison may also fail.
RxNick(t) ==
  /\ Running
  /\ thr[t].pc = "cb_nick"
  /\ thr[t].out = <<>>
  /\ LET c == thr[t].client
         m == thr[t].msg
     IN \/ /\ OwnNick(m, c)
           /\ nick' = [nick EXCEPT ![c] = m.body[2]]
           /\ client_prompt' = <<Render(m.body[2], host[c], fg_chan), client_prompt[2]>>
           /\ thr' = [thr EXCEPT ![t].pc = "cb_prompt"]
        \/ /\ ~OwnNick(m, c) \/ cstate[c] # "live"
           /\ thr' = [thr EXCEPT ![t].pc = "loop", ![t].msg = NoMsg]
           /\ UNCHANGED <<nick, client_prompt>>
  /\ UNCHANGED <<pcMain, password, client, newc, cstate, connected, host,
                 rx_thread_id, iopipe, pipeOpen, rl, fgchan, debug_level, auths, fully_started, shutting_down,
                 do_not_disturb, fg_chan, outcome, cmd, fgOut, fgNext,
                 nMsgs, nCmds, nSigint>>

\* update_prompt finishes rewriting client_prompt (its second half).
RxPrompt(t) ==
  /\ Running
  /\ thr[t].pc = "cb_prompt"
  /\ LET c == thr[t].client
     IN client_prompt' = <<client_prompt[1], Render(nick[c], host[c], fg_chan)>>
  /\ thr' = [thr EXCEPT ![t].pc = "loop", ![t].msg = NoMsg]
  /\ UNCHANGED <<pcMain, password, client, newc, cstate, connected, nick,
                 host, rx_thread_id, iopipe, pipeOpen, rl, fgchan, debug_level, auths, fully_started,
                 shutting_down, do_not_disturb, fg_chan, outcome, cmd,
                 fgOut, fgNext, nMsgs, nCmds, nSigint>>

\* irc_loop returns: the peer closed or the transport failed, and the loop
\* leaves the connected flag false; or the client was destroyed under the
\* thread and its read fails. rx_thread then logs "receive thread has exited".
RxLoopExit(t) ==
  /\ Running
  /\ thr[t].pc = "loop"
  /\ thr[t].out = <<>>
  /\ ~thr[t].cancel
  /\ LET c == thr[t].client
     IN \/ /\ cstate[c] = "live"
           /\ connected' = [connected EXCEPT ![c] = FALSE]
        \/ /\ cstate[c] # "live"
           /\ UNCHANGED connected
  /\ thr' = [thr EXCEPT ![t].pc = "assert", ![t].out = <<TS, LOG>>]
  /\ UNCHANGED <<pcMain, password, client, newc, cstate, nick, host,
                 rx_thread_id, iopipe, pipeOpen, rl, fgchan, debug_level, auths, fully_started, shutting_down,
                 do_not_disturb, fg_chan, client_prompt, outcome, cmd,
                 fgOut, fgNext, nMsgs, nCmds, nSigint>>

\* What assert(!irc_client_connected(client)) can read: the flag of a live
\* client, anything from a destroyed one.
FlagRead(c) == IF cstate[c] = "live" THEN {connected[c]} ELSE BOOLEAN

\* assert(!irc_client_connected(client)): the thread goes on to the wake byte
\* only when the flag reads false; the assertion failing aborts the process.
RxAssert(t) ==
  /\ Running
  /\ thr[t].pc = "assert"
  /\ thr[t].out = <<>>
  /\ \E v \in FlagRead(thr[t].client) :
       IF v
         THEN pcMain' = "aborted" /\ UNCHANGED thr
         ELSE thr' = [thr EXCEPT ![t].pc = "wake"] /\ UNCHANGED pcMain
  /\ UNCHANGED <<password, client, newc, cstate, connected, nick, host,
                 rx_thread_id, iopipe, pipeOpen, rl, fgchan, debug_level, auths, fully_started, shutting_down,
                 do_not_disturb, fg_chan, client_prompt, outcome, cmd,
                 fgOut, fgNext, nMsgs, nCmds, nSigint>>

\* write(iopipe[1], "", 1): the termination byte, then the thread returns.
RxWake(t) ==
  /\ Running
  /\ thr[t].pc = "wake"
  /\ ~thr[t].cancel
  /\ Len(iopipe) + 1 <= PipeCap
  /\ iopipe' = iopipe \o WAKE
  /\ thr' = [thr EXCEPT ![t].pc = "returned"]
  /\ UNCHANGED <<pcMain, password, client, newc, cstate, connected, nick,
                 host, rx_thread_id, pipeOpen, rl, fgchan, debug_level, auths, fully_started, shutting_down,
                 do_not_disturb, fg_chan, client_prompt, outcome, cmd,
                 fgOut, fgNext, nMsgs, nCmds, nSigint>>

\* The thread is at a cancellation point (the read in irc_loop, a
\* write) when its next step is one of these calls.
AtCancellationPoint(t) ==
  \/ thr[t].out # <<>>
  \/ thr[t].pc \in {"loop", "wake", "cb_send"}

\* A pending pthread_cancel is acted on at the next cancellation point.
RxCancelled(t) ==
  /\ Running
  /\ thr[t].cancel
  /\ ~Terminated(t)
  /\ AtCancellationPoint(t)
  /\ thr' = [thr EXCEPT ![t].pc = "cancelled", ![t].out = <<>>,
                          ![t].msg = NoMsg, ![t].tx = NoTx]
  /\ UNCHANGED <<pcMain, password, client, newc, cstate, connected, nick,
                 host, rx_thread_id, iopipe, pipeOpen, rl, fgchan, debug_level, auths, fully_started,
                 shutting_down, do_not_disturb, fg_chan, client_prompt, outcome, cmd, fgOut, fgNext, nMsgs, nCmds, nSigint>>

\* ------------------------------------------------------ SIGINT handler
InMainLoop ==
  pcMain \in {"readline", "poll", "dispatch", "out", "sending",
              "srv_replace", "srv_connect", "srv_spawn"}

\* A handler that also raises the flag client_readline sets on the marker.
Sigint_SetsFlag ==
  /\ fully_started = 1
  /\ InMainLoop
  /\ nSigint < MaxSigint
  /\ Len(iopipe) + 1 <= PipeCap
  /\ iopipe' = iopipe \o WAKE
  /\ shutting_down' = 1
  /\ nSigint' = nSigint + 1
  /\ UNCHANGED <<pcMain, password, client, newc, cstate, connected, nick,
                 host, thr, rx_thread_id, pipeOpen, rl, fgchan, debug_level, auths,
                 fully_started, do_not_disturb, fg_chan, client_prompt,
                 outcome, cmd, fgOut, fgNext, nMsgs, nCmds>>

\* __sigint_handler: write(iopipe[1], "", 1), nothing else.
Sigint ==
  /\ fully_started = 1
  /\ InMainLoop
  /\ nSigint < MaxSigint
  /\ Len(iopipe) + 1 <= PipeCap
  /\ iopipe' = iopipe \o WAKE
  /\ nSigint' = nSigint + 1
  /\ UNCHANGED <<pcMain, password, client, newc, cstate, connected, nick,
                 host, thr, rx_thread_id, pipeOpen, rl, fgchan, debug_level, auths, fully_started,
                 shutting_down, do_not_disturb, fg_chan, client_prompt, outcome, cmd, fgOut, fgNext, nMsgs, nCmds>>

\* ----------------------------------------------------- client_readline
\* printf("%s", client_prompt) on entry, then the poll loop.
FgPrompt ==
  /\ pcMain = "readline"
  /\ pcMain' = "poll"
  /\ UNCHANGED <<password, client, newc, cstate, connected, nick, host,
                 thr, rx_thread_id, iopipe, pipeOpen, rl, fgchan, debug_level, auths, fully_started,
                 shutting_down, do_not_disturb, fg_chan, client_prompt,
                 outcome, cmd, fgOut, fgNext, nMsgs, nCmds, nSigint>>

\* The command lines the user enters in this model.
\* name is the slash command ("text" for a line that is not one), arg what
\* follows it: "" when nothing does.
Cmds ==
  [name : {"dnd", "quit"}, arg : {""}]
  \cup [name : {"fg"}, arg : Chans]
  \cup [name : {"server"}, arg : {"", "h2"}]
  \cup [name : {"nick", "identify"}, arg : {"", "bob"}]
  \cup [name : {"raw"}, arg : {"", "x"}]
  \cup [name : {"text"}, arg : {"x"}]
  \cup [name : {"debug"}, arg : {"", "1", "11", "-1", "abc"}]

\* A line arrives on stdin: client_readline returns its length, shutting_down
\* is 0, and main hands the line to handle_send_msg.
FgInput(c) ==
  /\ pcMain = "poll"
  /\ nCmds < MaxCmds
  /\ nCmds' = nCmds + 1
  /\ cmd' = c
  /\ pcMain' = "dispatch"
  /\ UNCHANGED <<password, client, newc, cstate, connected, nick, host,
                 thr, rx_thread_id, iopipe, pipeOpen, rl, fgchan, debug_level, auths, fully_started,
                 shutting_down, do_not_disturb, fg_chan, client_prompt, outcome, fgOut, fgNext, nMsgs, nSigint>>

\* read(STDIN_FILENO) returns 0 or fails: client_readline returns -1 with
\* shutting_down unset, and main leaves through "Client disconnected".
FgEof ==
  /\ pcMain = "poll"
  /\ outcome' = "disconnected"
  /\ pcMain' = "exit_cancel"
  /\ UNCHANGED <<password, client, newc, cstate, connected, nick, host,
                 thr, rx_thread_id, iopipe, pipeOpen, rl, fgchan, debug_level, auths, fully_started,
                 shutting_down, do_not_disturb, fg_chan, client_prompt, cmd, fgOut, fgNext, nMsgs, nCmds, nSigint>>

\* res = read(iopipe[0], outputbuf, sizeof(outputbuf) - 1).
ReadLen(p) == IF Len(p) < ReadMax THEN Len(p) ELSE ReadMax

\* A marker test that looks at the length alone: any read of one byte.
IsWake_AnyByte(buf) == Len(buf) = 1

\* res == 1 && *outputbuf == '\0': what client_readline takes for the marker.
IsWake(buf) == Len(buf) = 1 /\ buf[1] = "z"

\* outputbuf[res] = '\0'; printf("%s", outputbuf): what reaches stdout is the
\* buffer up to its first NUL byte.
Printed(buf) ==
  LET nul == {i \in 1..Len(buf) : buf[i] = "z"}
  IN IF nul = {} THEN buf
     ELSE SubSeq(buf, 1, (CHOOSE i \in nul : \A j \in nul : i <= j) - 1)

\* The pipe is readable: one read. The marker sets shutting_down and ends
\* client_readline, so that main leaves through "Client requested
\* disconnect"; of anything else Printed(buf) reaches stdout.
FgReadPipe ==
  /\ pcMain = "poll"
  /\ iopipe # <<>>
  /\ LET res == ReadLen(iopipe)
         buf == SubSeq(iopipe, 1, res)
     IN /\ iopipe' = SubSeq(iopipe, res + 1, Len(iopipe))
        /\ IF IsWake(buf)
             THEN /\ shutting_down' = 1
                  /\ outcome' = "requested"
                  /\ pcMain' = "exit_cancel"
             ELSE UNCHANGED <<shutting_down, outcome, pcMain>>
  /\ UNCHANGED <<password, client, newc, cstate, connected, nick, host,
                 thr, rx_thread_id, pipeOpen, rl, fgchan, debug_level, auths,
                 fully_started, do_not_disturb,
                 fg_chan, client_prompt, cmd, fgOut, fgNext, nMsgs, nCmds,
                 nSigint>>

\* One write of a pending record by the foreground thread (irc_print or
\* client_log called from handle_send_msg); main's loop calls client_readline
\* again once handle_send_msg has returned.
FgWrite ==
  /\ pcMain = "out"
  /\ fgOut # <<>>
  /\ Len(iopipe) + Len(Head(fgOut)) <= PipeCap
  /\ iopipe' = iopipe \o Head(fgOut)
  /\ fgOut' = Tail(fgOut)
  /\ pcMain' = IF Tail(fgOut) = <<>> THEN fgNext ELSE pcMain
  /\ fgNext' = IF Tail(fgOut) = <<>> THEN "none" ELSE fgNext
  /\ UNCHANGED <<password, client, newc, cstate, connected, nick, host,
                 thr, rx_thread_id, pipeOpen, rl, fgchan, debug_level, auths, fully_started, shutting_down,
                 do_not_disturb, fg_chan, client_prompt, outcome, cmd,
                 nMsgs, nCmds, nSigint>>

\* ----------------------------------------------------- handle_send_msg
\* irc_client_destroy(c): the transport is closed and the object released.
\* A second call on the same object is kept apart from the first.
Destroyed(c) ==
  [cstate EXCEPT ![c] = IF @ = "live" THEN "destroyed" ELSE "destroyed_twice"]

\* client_log(IRC_LOG_ERR, ...) and return -1: the records the call writes.
LogAndReturn ==
  /\ fgOut' = <<TS, LOG>>
  /\ fgNext' = "readline"
  /\ pcMain' = "out"
  /\ cmd' = NoCmd

\* return from handle_send_msg with nothing written.
Return ==
  /\ pcMain' = "readline"
  /\ cmd' = NoCmd
  /\ UNCHANGED <<fgOut, fgNext>>

\* irc_print(...) and return: the records the call writes.
PrintAndReturn ==
  /\ fgOut' = <<TS, LINE>>
  /\ fgNext' = "readline"
  /\ pcMain' = "out"
  /\ cmd' = NoCmd

\* The characters of a parameter, as the bytes atoi reads.
Text(a) ==
  CASE a = "1" -> <<"1">>
    [] a = "11" -> <<"1", "1">>
    [] a = "-1" -> <<"-", "1">>
    [] a = "abc" -> <<"a", "b", "c">>
    [] OTHER -> <<>>

DigitVal(ch) ==
  CASE ch = "0" -> 0 [] ch = "1" -> 1 [] ch = "2" -> 2 [] ch = "3" -> 3
    [] ch = "4" -> 4 [] ch = "5" -> 5 [] ch = "6" -> 6 [] ch = "7" -> 7
    [] ch = "8" -> 8 [] ch = "9" -> 9
IsDigit(ch) == ch \in {"0", "1", "2", "3", "4", "5", "6", "7", "8", "9"}

\* The decimal digits of s from position i on, up to the first character
\* that is not a digit, added to acc.
RECURSIVE AtoiFrom(_, _, _)
AtoiFrom(s, i, acc) ==
  IF i > Len(s) \/ ~IsDigit(s[i]) THEN acc
  ELSE AtoiFrom(s, i + 1, acc * 10 + DigitVal(s[i]))

\* atoi: an optional sign, then the leading digits; 0 when there are none.
atoi(s) ==
  IF s # <<>> /\ s[1] = "-" THEN 0 - AtoiFrom(s, 2, 0)
  ELSE IF s # <<>> /\ s[1] = "+" THEN AtoiFrom(s, 2, 0)
  ELSE AtoiFrom(s, 1, 0)

\* /debug <level>: level = atoi(msg), and a level from 0 to 10 is stored and
\* printed; any other is passed over in silence.
HsmDebug ==
  /\ pcMain = "dispatch"
  /\ cmd.name = "debug"
  /\ cmd.arg # ""
  /\ LET level == atoi(Text(cmd.arg))
     IN IF level >= 0 /\ level <= 10
          THEN debug_level' = level /\ PrintAndReturn
          ELSE UNCHANGED debug_level /\ Return
  /\ UNCHANGED <<password, fgchan, client, newc, cstate, connected, nick, host,
                 thr, rx_thread_id, iopipe, pipeOpen, rl, auths,
                 fully_started, shutting_down, do_not_disturb, fg_chan,
                 client_prompt, outcome, nMsgs, nCmds, nSigint>>

\* /dnd: toggle do_not_disturb and irc_print the new setting.
HsmDnd ==
  /\ pcMain = "dispatch"
  /\ cmd.name = "dnd"
  /\ do_not_disturb' = IF do_not_disturb # 0 THEN 0 ELSE 1
  /\ PrintAndReturn
  /\ UNCHANGED <<password, client, newc, cstate, connected, nick, host,
                 thr, rx_thread_id, iopipe, pipeOpen, rl, fgchan, debug_level, auths, fully_started,
                 shutting_down, fg_chan, client_prompt, outcome,
                 nMsgs, nCmds, nSigint>>

\* /fg <chan>: set_fg_chan and update_prompt.
HsmFg ==
  /\ pcMain = "dispatch"
  /\ cmd.name = "fg"
  /\ fg_chan' = cmd.arg
  /\ client_prompt' = update_prompt(client, cmd.arg)
  /\ Return
  /\ UNCHANGED <<password, client, newc, cstate, connected, nick, host,
                 thr, rx_thread_id, iopipe, pipeOpen, rl, fgchan, debug_level, auths, fully_started,
                 shutting_down, do_not_disturb, outcome, nMsgs, nCmds,
                 nSigint>>

\* /server <host>: irc_client_new(server, port, "", ""); NULL returns -1 with
\* the prior client untouched.
HsmServerNew ==
  /\ pcMain = "dispatch"
  /\ cmd.name = "server"
  /\ cmd.arg # ""
  /\ \/ /\ FreeClients # {}
        /\ LET c == FreshClient IN
             /\ newc' = c
             /\ cstate' = [cstate EXCEPT ![c] = "live"]
             /\ nick' = [nick EXCEPT ![c] = ""]
             /\ host' = [host EXCEPT ![c] = "h2"]
        /\ pcMain' = "srv_replace"
        /\ UNCHANGED cmd
     \/ /\ pcMain' = "readline"
        /\ cmd' = NoCmd
        /\ UNCHANGED <<newc, cstate, nick, host>>
  /\ UNCHANGED <<password, client, connected, thr, rx_thread_id, iopipe,
                 pipeOpen, rl, fgchan, debug_level, auths, fully_started, shutting_down, do_not_disturb,
                 fg_chan, client_prompt, outcome, fgOut, fgNext,
                 nMsgs, nCmds, nSigint>>

\* /server with the two pointers mixed up: the new client is destroyed and
\* the prior one kept, so that the connect that follows reconnects it.
HsmServerReplace_WrongPointer ==
  /\ pcMain = "srv_replace"
  /\ cstate' = Destroyed(newc)
  /\ newc' = NoClient
  /\ pcMain' = "srv_connect"
  /\ UNCHANGED <<password, client, connected, nick, host, thr, rx_thread_id,
                 iopipe, pipeOpen, rl, fgchan, debug_level, auths, fully_started, shutting_down,
                 do_not_disturb, fg_chan, client_prompt, outcome, cmd, fgOut,
                 fgNext, nMsgs, nCmds, nSigint>>

\* /server without its irc_client_destroy: the prior client is leaked.
HsmServerReplace_Leak ==
  /\ pcMain = "srv_replace"
  /\ client' = newc
  /\ newc' = NoClient
  /\ pcMain' = "srv_connect"
  /\ UNCHANGED <<password, cstate, connected, nick, host, thr, rx_thread_id,
                 iopipe, pipeOpen, rl, fgchan, debug_level, auths, fully_started, shutting_down,
                 do_not_disturb, fg_chan, client_prompt, outcome, cmd, fgOut,
                 fgNext, nMsgs, nCmds, nSigint>>

\* irc_client_destroy(*clientptr); *clientptr = client.
HsmServerReplace ==
  /\ pcMain = "srv_replace"
  /\ cstate' = Destroyed(client)
  /\ connected' = [connected EXCEPT ![client] = FALSE]
  /\ client' = newc
  /\ newc' = NoClient
  /\ pcMain' = "srv_connect"
  /\ UNCHANGED <<password, nick, host, thr, rx_thread_id, iopipe,
                 pipeOpen, rl, fgchan, debug_level, auths, fully_started, shutting_down, do_not_disturb,
                 fg_chan, client_prompt, outcome, cmd, fgOut, fgNext,
                 nMsgs, nCmds, nSigint>>

\* irc_client_connect(client); a failure is logged and returns -1.
HsmServerConnect ==
  /\ pcMain = "srv_connect"
  /\ \/ /\ connected' = [connected EXCEPT ![client] = TRUE]
        /\ pcMain' = "srv_spawn"
        /\ UNCHANGED <<cmd, fgOut, fgNext>>
     \/ /\ LogAndReturn
        /\ UNCHANGED connected
  /\ UNCHANGED <<password, client, newc, cstate, nick, host, thr,
                 rx_thread_id, iopipe, pipeOpen, rl, fgchan, debug_level, auths, fully_started, shutting_down,
                 do_not_disturb, fg_chan, client_prompt, outcome,
                 nMsgs, nCmds, nSigint>>

\* pthread_create(&rx_thread_id, NULL, rx_thread, client), then update_prompt.
\* A failed pthread_create returns -1 and leaves rx_thread_id undefined: as it
\* was, or no thread's id.
HsmServerSpawn ==
  /\ pcMain = "srv_spawn"
  /\ \/ /\ FreeThreads # {}
        /\ LET t == FreshThread IN
             /\ thr' = [thr EXCEPT ![t] = StartedThread(client)]
             /\ rx_thread_id' = t
        /\ client_prompt' = update_prompt(client, fg_chan)
     \/ /\ rx_thread_id' \in {rx_thread_id, InvalidThread}
        /\ UNCHANGED <<thr, client_prompt>>
  /\ Return
  /\ UNCHANGED <<password, client, newc, cstate, connected, nick, host,
                 iopipe, pipeOpen, rl, fgchan, debug_level, auths, fully_started, shutting_down,
                 do_not_disturb, fg_chan, outcome, nMsgs, nCmds,
                 nSigint>>

\* REQUIRED_PARAMETER: a NULL parameter is logged and handle_send_msg returns
\* -1. /debug and /server check theirs before anything else; /nick and
\* /identify check theirs once the client is known to be connected.
HsmMissing ==
  /\ pcMain = "dispatch"
  /\ cmd.arg = ""
  /\ \/ cmd.name \in {"debug", "server"}
     \/ cmd.name \in {"nick", "identify"} /\ connected[client]
  /\ LogAndReturn
  /\ UNCHANGED <<password, client, newc, cstate, connected, nick, host,
                 thr, rx_thread_id, iopipe, pipeOpen, rl, fgchan, debug_level, auths, fully_started, shutting_down, do_not_disturb, fg_chan,
                 client_prompt, outcome, nMsgs, nCmds, nSigint>>

\* A slash command other than help, debug, dnd, fg and server while
\* !irc_client_connected(client): logged, return -1.
HsmNotConnected ==
  /\ pcMain = "dispatch"
  /\ cmd.name \in {"nick", "identify", "quit", "raw"}
  /\ ~connected[client]
  /\ LogAndReturn
  /\ UNCHANGED <<password, client, newc, cstate, connected, nick, host,
                 thr, rx_thread_id, iopipe, pipeOpen, rl, fgchan, debug_level, auths, fully_started, shutting_down, do_not_disturb, fg_chan,
                 client_prompt, outcome, nMsgs, nCmds, nSigint>>

\* REQUIRE_FG_CHANNEL on a line that is no slash command: without a
\* foreground channel it is logged and handle_send_msg returns -1.
HsmNoFgChan ==
  /\ pcMain = "dispatch"
  /\ cmd.name = "text"
  /\ fg_chan = ""
  /\ LogAndReturn
  /\ UNCHANGED <<password, client, newc, cstate, connected, nick, host,
                 thr, rx_thread_id, iopipe, pipeOpen, rl, fgchan, debug_level, auths, fully_started, shutting_down, do_not_disturb, fg_chan,
                 client_prompt, outcome, nMsgs, nCmds, nSigint>>

\* The library operation a command line ends in, "none" when handle_send_msg
\* returns before it: /raw and /quit pass on whatever follows the command,
\* /nick its checked parameter, and a plain line goes to the foreground
\* channel with no look at the connection.
SendOp(c, conn, fg) ==
  CASE c.name \in {"raw", "quit"} /\ conn -> c.name
    [] c.name = "nick" /\ conn /\ c.arg # "" -> "nick"
    [] c.name = "text" /\ fg # "" -> "msg"
    [] OTHER -> "none"

\* irc_send, irc_client_quit, irc_client_change_nick, irc_client_msg is
\* entered: the foreground thread is inside the library's send. client.c
\* takes no lock around it.
HsmSend ==
  /\ pcMain = "dispatch"
  /\ SendOp(cmd, connected[client], fg_chan) # "none"
  /\ pcMain' = "sending"
  /\ UNCHANGED <<password, client, newc, cstate, connected, nick, host,
                 thr, rx_thread_id, iopipe, pipeOpen, rl, fgchan, debug_level, auths, fully_started, shutting_down, do_not_disturb, fg_chan,
                 client_prompt, outcome, cmd, fgOut, fgNext, nMsgs, nCmds,
                 nSigint>>

\* A /quit that ends the client by itself once QUIT is sent.
HsmSent_QuitLeaves ==
  /\ pcMain = "sending"
  /\ IF cmd.name = "quit"
       THEN /\ shutting_down' = 1
            /\ outcome' = "requested"
            /\ pcMain' = "exit_cancel"
            /\ cmd' = NoCmd
            /\ UNCHANGED <<fgOut, fgNext>>
       ELSE Return /\ UNCHANGED <<shutting_down, outcome>>
  /\ UNCHANGED <<password, client, newc, cstate, connected, nick, host,
                 thr, rx_thread_id, iopipe, pipeOpen, rl, fgchan, debug_level, auths,
                 fully_started, do_not_disturb, fg_chan, client_prompt,
                 nMsgs, nCmds, nSigint>>

\* The send returns, and handle_send_msg returns its result to main's loop.
HsmSent ==
  /\ pcMain = "sending"
  /\ Return
  /\ UNCHANGED <<password, client, newc, cstate, connected, nick, host,
                 thr, rx_thread_id, iopipe, pipeOpen, rl, fgchan, debug_level, auths, fully_started, shutting_down, do_not_disturb, fg_chan,
                 client_prompt, outcome, nMsgs, nCmds, nSigint>>

\* /identify <nick> <pass>: irc_client_auth (a success registers the nickname,
\* a failure leaves it), then update_prompt.
HsmIdentify ==
  /\ pcMain = "dispatch"
  /\ cmd.name = "identify"
  /\ cmd.arg # ""
  /\ connected[client]
  /\ auths' = [auths EXCEPT ![client] = @ + 1]
  /\ \E n \in {nick[client], cmd.arg} :
       /\ nick' = [nick EXCEPT ![client] = n]
       /\ client_prompt' = Whole(Render(n, host[client], fg_chan))
  /\ Return
  /\ UNCHANGED <<password, client, newc, cstate, connected, host, thr,
                 rx_thread_id, iopipe, pipeOpen, rl, fgchan, debug_level,
                 fully_started, shutting_down, do_not_disturb, fg_chan,
                 outcome, nMsgs, nCmds, nSigint>>

\* ---------------------------------------------------------- main: exit
\* pthread_cancel(rx_thread_id): the first statement after the main loop.
\* An id that names no thread makes the call undefined: it fails or crashes.
MainCancel ==
  /\ pcMain = "exit_cancel"
  /\ \/ /\ rx_thread_id \in ThreadIds
        /\ thr' = [thr EXCEPT ![rx_thread_id].cancel = ~Terminated(rx_thread_id)]
        /\ pcMain' = "exit_join"
     \/ /\ rx_thread_id \notin ThreadIds
        /\ pcMain' \in {"exit_join", "aborted"}
        /\ UNCHANGED thr
  /\ UNCHANGED <<password, client, newc, cstate, connected, nick, host,
                 rx_thread_id, iopipe, pipeOpen, rl, fgchan, debug_level, auths, fully_started, shutting_down,
                 do_not_disturb, fg_chan, client_prompt, outcome, cmd,
                 fgOut, fgNext, nMsgs, nCmds, nSigint>>

\* An exit that does not wait for the thread: pthread_join is missing.
MainJoin_NoWait ==
  /\ pcMain = "exit_join"
  /\ pcMain' = "exit_destroy"
  /\ UNCHANGED <<password, client, newc, cstate, connected, nick, host, thr,
                 rx_thread_id, iopipe, pipeOpen, rl, fgchan, debug_level, auths, fully_started, shutting_down,
                 do_not_disturb, fg_chan, client_prompt, outcome, cmd,
                 fgOut, fgNext, nMsgs, nCmds, nSigint>>

\* pthread_join(rx_thread_id, NULL): returns once that thread has terminated.
MainJoin ==
  /\ pcMain = "exit_join"
  /\ \/ /\ rx_thread_id \in ThreadIds
        /\ thr[rx_thread_id].pc \in {"returned", "cancelled"}
        /\ thr' = [thr EXCEPT ![rx_thread_id].pc = "joined"]
     \/ /\ rx_thread_id \notin ThreadIds
        /\ UNCHANGED thr
  /\ pcMain' = "exit_destroy"
  /\ UNCHANGED <<password, client, newc, cstate, connected, nick, host,
                 rx_thread_id, iopipe, pipeOpen, rl, fgchan, debug_level, auths, fully_started, shutting_down,
                 do_not_disturb, fg_chan, client_prompt, outcome, cmd,
                 fgOut, fgNext, nMsgs, nCmds, nSigint>>

\* fclose(clientlog) and irc_client_destroy(client).
MainDestroy ==
  /\ pcMain = "exit_destroy"
  /\ cstate' = Destroyed(client)
  /\ connected' = [connected EXCEPT ![client] = FALSE]
  /\ pcMain' = "closepipes"
  /\ UNCHANGED <<password, client, newc, nick, host, thr, rx_thread_id,
                 iopipe, pipeOpen, rl, fgchan, debug_level, auths, fully_started, shutting_down,
                 do_not_disturb, fg_chan, client_prompt, outcome, cmd,
                 fgOut, fgNext, nMsgs, nCmds, nSigint>>

\* closepipes: close(iopipe[0]); close(iopipe[1]); return mainres.
MainClosePipes ==
  /\ pcMain = "closepipes"
  /\ pipeOpen' = FALSE
  /\ pcMain' = "done"
  /\ UNCHANGED <<password, fgchan, client, newc, cstate, connected, nick, host,
                 thr, rx_thread_id, iopipe, rl, debug_level, auths,
                 fully_started, shutting_down,
                 do_not_disturb, fg_chan, client_prompt, outcome, cmd,
                 fgOut, fgNext, nMsgs, nCmds, nSigint>>

\* ------------------------------------------------------- specification
\* The steps the foreground thread takes by itself.
FgStep ==
  \/ MainNew \/ MainFlags \/ MainConnect \/ MainLogin \/ MainSpawn \/ MainReady
  \/ FgPrompt \/ FgReadPipe \/ FgWrite
  \/ HsmDebug \/ HsmDnd \/ HsmFg \/ HsmMissing \/ HsmServerNew
  \/ HsmServerReplace \/ HsmServerConnect \/ HsmServerSpawn
  \/ HsmNotConnected \/ HsmNoFgChan \/ HsmSend \/ HsmSent \/ HsmIdentify
  \/ MainCancel \/ MainJoin \/ MainDestroy \/ MainClosePipes

\* The steps a receive thread takes by itself.
RxStep(t) ==
  \/ RxWrite(t) \/ RxNick(t) \/ RxPrompt(t) \/ RxSend(t) \/ RxSent(t)
  \/ RxAssert(t) \/ RxWake(t) \/ RxCancelled(t)

\* What the user, the server and the terminal do.
EnvStep ==
  \/ \E c \in Cmds : FgInput(c)
  \/ FgEof
  \/ Sigint
  \/ \E t \in ThreadIds : \E m \in Msgs : RxRecv(t, m)
  \/ \E t \in ThreadIds : \E lc \in LogCalls : LibLog(t, lc)
  \/ \E t \in ThreadIds : RxLoopExit(t)

Next == FgStep \/ (\E t \in ThreadIds : RxStep(t)) \/ EnvStep

Spec == Init /\ [][Next]_vars

\* Both threads are scheduled: a thread that can take a step of its own
\* eventually takes one. Nothing is assumed of the user or the server.
FairSpec ==
  /\ Spec
  /\ WF_vars(FgStep)
  /\ \A t \in ThreadIds : WF_vars(RxStep(t))

TypeOK ==
  /\ pcMain \in {"new", "flags", "connect", "login", "spawn", "ready",
                 "readline", "poll", "dispatch", "out", "sending",
                 "srv_replace",
                 "srv_connect", "srv_spawn", "exit_cancel", "exit_join",
                 "exit_destroy", "closepipes", "done", "aborted"}
  /\ fgchan \in {""} \cup Chans
  /\ client \in ClientIds \cup {NoClient}
  /\ rx_thread_id \in ThreadIds \cup {NoThread, InvalidThread}
  /\ Len(iopipe) <= PipeCap
  /\ shutting_down \in {0, 1}
  /\ fully_started \in {0, 1}
  /\ debug_level \in 0..10
  /\ \A c \in ClientIds : auths[c] \in 0..(MaxCmds + 1)
  /\ \A t \in ThreadIds :
       thr[t].pc \in {"none", "loop", "cb_nick", "cb_prompt", "cb_send",
                      "sending", "assert", "wake", "returned", "cancelled",
                      "joined"}

\* ------------------------------------------- client_readline, key by key
\* The bytes read(STDIN_FILENO, buf, 1) delivers in this model: a letter, a
\* slash, newline, backspace (8) and delete (127).
Keys == {"a", "/", "nl", "bs", "del"}

\* The program at rest in main's loop after a start without password or -f:
\* connected, the receive thread in irc_loop, nothing in the pipe.
RlInit ==
  /\ pcMain = "readline"
  /\ password = "none"
  /\ fgchan = ""
  /\ client = 1
  /\ newc = NoClient
  /\ cstate = [c \in ClientIds |-> IF c = 1 THEN "live" ELSE "none"]
  /\ connected = [c \in ClientIds |-> c = 1]
  /\ nick = [c \in ClientIds |-> ""]
  /\ host = [c \in ClientIds |-> IF c = 1 THEN "h1" ELSE ""]
  /\ thr = [t \in ThreadIds |-> IF t = 1 THEN StartedThread(1) ELSE IdleThread]
  /\ rx_thread_id = 1
  /\ iopipe = <<>>
  /\ pipeOpen = TRUE
  /\ fully_started = 1
  /\ shutting_down = 0
  /\ do_not_disturb = 0
  /\ fg_chan = ""
  /\ client_prompt = Whole(Render("", "h1", ""))
  /\ outcome = "none"
  /\ cmd = NoCmd
  /\ fgOut = <<>>
  /\ fgNext = "none"
  /\ debug_level = 0
  /\ auths = [c \in ClientIds |-> 0]
  /\ nMsgs = 0
  /\ nCmds = 0
  /\ nSigint = 0
  /\ rl = RlIdle

\* res = client_readline(input, sizeof(input) - 1): num_read = 0, buf at the
\* start of input, and the poll loop is entered.
RlCall ==
  /\ rl.pc = "idle"
  /\ rl' = [rl EXCEPT !.pc = "poll", !.num_read = 0, !.len = RlLen,
                       !.buf = 0, !.res = 0]
  /\ UNCHANGED mainVars

\* A line editor whose newline returns at once: the test for an empty line is
\* missing, so that an empty line returns 0.
RlKey_EmptyLineReturns(ch) ==
  /\ rl.pc = "poll"
  /\ rl.buf \in 0..RlLen
  /\ LET r == [rl EXCEPT !.input[rl.buf] = ch]
     IN rl' =
          IF ch = "nl"
            THEN [r EXCEPT !.pc = "returned", !.res = r.num_read]
          ELSE IF ch \in {"bs", "del"}
            THEN IF r.num_read # 0
                   THEN [r EXCEPT !.num_read = @ - 1, !.buf = @ - 1, !.len = @ + 1]
                   ELSE r
          ELSE LET q == [r EXCEPT !.buf = @ + 1, !.len = @ - 1, !.num_read = @ + 1]
               IN IF q.len <= 1
                    THEN [q EXCEPT !.pc = "returned", !.res = q.num_read]
                    ELSE q
  /\ UNCHANGED mainVars

\* stdin is readable: read(STDIN_FILENO, buf, 1) stores the byte at *buf.
\* Newline returns num_read unless the line is empty; backspace and delete
\* take the last character back when there is one; any other byte is kept,
\* and the line is returned once len <= 1.
RlKey(ch) ==
  /\ rl.pc = "poll"
  /\ rl.buf \in 0..RlLen
  /\ LET r == [rl EXCEPT !.input[rl.buf] = ch]
     IN rl' =
          IF ch = "nl"
            THEN IF r.num_read = 0
                   THEN r
                   ELSE [r EXCEPT !.pc = "returned", !.res = r.num_read]
          ELSE IF ch \in {"bs", "del"}
            THEN IF r.num_read # 0
                   THEN [r EXCEPT !.num_read = @ - 1, !.buf = @ - 1, !.len = @ + 1]
                   ELSE r
          ELSE LET q == [r EXCEPT !.buf = @ + 1, !.len = @ - 1, !.num_read = @ + 1]
               IN IF q.len <= 1
                    THEN [q EXCEPT !.pc = "returned", !.res = q.num_read]
                    ELSE q
  /\ UNCHANGED mainVars

\* read(STDIN_FILENO, buf, 1) returns 0 or fails: break, return -1.
RlEof ==
  /\ rl.pc = "poll"
  /\ rl' = [rl EXCEPT !.pc = "returned", !.res = 0 - 1]
  /\ UNCHANGED mainVars

\* main's loop on the result: res <= 0 leaves the loop; otherwise
\* input[res] = '\0', handle_send_msg(&client, input), and the next call.
RlMain ==
  /\ rl.pc = "returned"
  /\ IF rl.res <= 0
       THEN rl' = [rl EXCEPT !.pc = "left"]
       ELSE /\ rl.res \in 0..RlLen
            /\ rl' = [rl EXCEPT !.pc = "idle", !.input[rl.res] = "z"]
  /\ UNCHANGED mainVars

RlNext == RlCall \/ (\E ch \in Keys : RlKey(ch)) \/ RlEof \/ RlMain

ReadlineSpec == RlInit /\ [][RlNext]_vars

\* ==================================================================== C1
\* A receive thread has just come back from irc_loop (its "has exited" log
\* line is still to be written) while the foreground thread waits in
\* client_readline's poll.
LoopReturnedInReadline ==
  /\ pcMain = "poll"
  /\ \E t \in ThreadIds : thr[t].pc = "assert" /\ Len(thr[t].out) = 2

\* C1: whenever irc_loop returns while the foreground thread is inside
\* client_readline, the foreground thread eventually returns from
\* client_readline with shutting_down = 1 and the main loop leaves into
\* cleanup. The formula asks for less than the claim does, that the
\* foreground thread leaves client_readline's poll loop at all: a behaviour
\* that violates it violates the claim.
C1_WakeAlwaysArrives == LoopReturnedInReadline ~> (pcMain # "poll")

\* ==================================================================== C2
\* C2: after a SIGINT delivered once the client is fully started, the main
\* loop eventually exits through "Client requested disconnect", whatever
\* unread output shares the pipe with the handler's byte. The formula asks
\* for less than the claim does: that a foreground thread waiting in
\* client_readline's poll after the SIGINT eventually leaves it.
C2_SigintAlwaysExits == (nSigint >= 1 /\ pcMain = "poll") ~> (pcMain # "poll")

\* ==================================================================== C3
\* C3: from the moment a receive thread is about to write its termination
\* byte, and for as long as the byte can be observed (the thread has returned
\* and is not yet joined), the connected flag of its client is false.
C3_FlagFalseAtWake ==
  \A t \in ThreadIds :
    thr[t].pc \in {"wake", "returned"} => ~connected[thr[t].client]

\* The thread has returned, its byte is in the pipe and the foreground thread
\* is about to read it.
C3_Witness ==
  \E t \in ThreadIds :
    /\ thr[t].pc = "returned"
    /\ pcMain = "poll"
    /\ iopipe = WAKE
    /\ cstate[thr[t].client] = "live"

Alive(t) == thr[t].pc \notin {"none", "returned", "cancelled", "joined"}

\* C5: irc_client_destroy is called at most once on each client object, and
\* never on a client on which a receive thread is still running.
C5_DestroyOnceAndIdle ==
  /\ \A c \in ClientIds : cstate[c] # "destroyed_twice"
  /\ \A t \in ThreadIds : Alive(t) => cstate[thr[t].client] = "live"

\* ==================================================================== C6
\* C6: whenever main has returned, both pipe ends are closed and every client
\* object that was created has been destroyed.
C6_AllReleasedAtReturn ==
  pcMain = "done" =>
    /\ ~pipeOpen
    /\ \A c \in ClientIds : cstate[c] # "live"

\* ==================================================================== C7
LiveClients == {c \in ClientIds : cstate[c] = "live"}

\* C7 as stated: at every moment at most one client object exists that has
\* not been destroyed.
C7_AtMostOneClient == Cardinality(LiveClients) <= 1

\* C7 as amended: /server creates the new client before it destroys the
\* prior one. While the process runs, outside the window between that
\* irc_client_new and that irc_client_destroy at most one client is live;
\* inside it the live clients are the prior and the new one; and a /server
\* whose irc_client_new fails leaves the prior client as it was.
C7_OneClientOutsideServer ==
  /\ [](/\ pcMain \notin {"srv_replace", "aborted"}
             => Cardinality(LiveClients) <= 1
        /\ pcMain = "srv_replace" => LiveClients \subseteq {client, newc})
  /\ [][(pcMain = "dispatch" /\ cmd.name = "server" /\ pcMain' = "readline")
          => UNCHANGED <<client, cstate, connected, nick, host>>]_vars

\* /server has replaced the first client by the second.
C7_Witness ==
  /\ pcMain = "srv_connect"
  /\ client = 2
  /\ cstate[1] = "destroyed"
  /\ cstate[2] = "live"

\* ==================================================================== C8
\* C8: at most one receive thread is alive at any time, rx_thread_id names
\* it, and once main has returned from an orderly exit every thread that was
\* started has been joined.
C8_OneThreadReaped ==
  /\ Cardinality({t \in ThreadIds : Alive(t)}) <= 1
  /\ \A t \in ThreadIds : Alive(t) => rx_thread_id = t
  /\ (pcMain = "done" /\ outcome \in {"requested", "disconnected"})
       => \A t \in ThreadIds : thr[t].pc \in {"none", "joined"}

\* ==================================================================== C9
\* C9: the prompt the foreground thread prints on entering client_readline is
\* never a partly written one.
C9_PromptNeverTorn == [][FgPrompt => Complete(client_prompt)]_vars

\* =================================================================== C10
\* A step of a receive thread: it moves that thread and not the foreground.
RxThreadStep == thr' # thr /\ pcMain' = pcMain

\* C10: a receive thread's step changes the nickname only when it handles a
\* NICK message whose prefix nick equals the client's nickname, and the new
\* nickname is that message's body less its colon; it changes client_prompt
\* only then or when finishing the update_prompt that such a message began;
\* and carrying out a /nick command changes neither.
C10_NickOnlyByOwnNick ==
  [][/\ (RxThreadStep /\ nick' # nick) =>
          \E t \in ThreadIds :
            /\ thr[t].pc = "cb_nick"
            /\ thr[t].msg.type = "NICK"
            /\ RealNick(thr[t].msg.prefix) = nick[thr[t].client]
            /\ nick' = [nick EXCEPT ![thr[t].client] = thr[t].msg.body[2]]
     /\ (RxThreadStep /\ client_prompt' # client_prompt) =>
          \E t \in ThreadIds :
            \/ thr[t].pc = "cb_prompt"
            \/ /\ thr[t].pc = "cb_nick"
               /\ RealNick(thr[t].msg.prefix) = nick[thr[t].client]
     /\ (pcMain \in {"dispatch", "sending"} /\ cmd.name = "nick"
           /\ pcMain' # pcMain) =>
          UNCHANGED <<nick, client_prompt>>]_vars

\* The callback has taken alice's own NICK message: the nickname is bob and
\* the prompt is being rewritten.
C10_Witness ==
  \E t \in ThreadIds :
    /\ thr[t].pc = "cb_prompt"
    /\ thr[t].msg.prefix[1] = "alice"
    /\ nick[thr[t].client] = "bob"

\* =================================================================== C11
\* C11: handle_send_msg enters no library send while the client is not
\* connected, whatever the input line.
C11_NoSendUnconnected ==
  [][(pcMain = "dispatch" /\ ~connected[client]) => pcMain' # "sending"]_vars

\* =================================================================== C12
\* The command lines with nothing after a command whose help text lists a
\* mandatory parameter: /raw <MSG>, /nick <NICK>, /identify <USER> <PASS>,
\* /server <HOST> <PORT>.
MissingParam(c) ==
  c.name \in {"raw", "nick", "identify", "server"} /\ c.arg = ""

\* C12: a command line that lacks a mandatory parameter is logged and
\* returned from: no library send is entered, no client is created or
\* destroyed, and the client's state stays as it was.
C12_MissingParamRejected ==
  [][(pcMain = "dispatch" /\ MissingParam(cmd)
        /\ pcMain' # pcMain /\ pcMain' # "aborted")
       => /\ pcMain' = "out"
          /\ UNCHANGED <<client, newc, cstate, connected, nick, host, auths,
                         client_prompt>>]_vars

\* =================================================================== C13
\* C13: a step of the SIGINT handler appends one zero byte to the pipe and
\* changes nothing else of the program's state.
C13_SigintOnlyWrites ==
  [][nSigint' # nSigint =>
       /\ iopipe' = iopipe \o WAKE
       /\ nSigint' = nSigint + 1
       /\ UNCHANGED <<pcMain, password, client, newc, cstate, connected,
                      nick, host, thr, rx_thread_id, pipeOpen, rl, fgchan, debug_level,
                      auths, fully_started, shutting_down, do_not_disturb,
                      fg_chan, client_prompt, outcome, cmd, fgOut, fgNext,
                      nMsgs, nCmds>>]_vars

\* The handler has run and its byte is the last in the pipe; no receive
\* thread has written one, and shutting_down is still 0.
C13_Witness ==
  /\ nSigint = 1
  /\ shutting_down = 0
  /\ iopipe # <<>>
  /\ iopipe[Len(iopipe)] = "z"
  /\ \A t \in ThreadIds : thr[t].pc \notin {"wake", "returned", "joined"}

\* =================================================================== C14
\* The call that puts a record into its descriptor: print_time and
\* __client_log use dprintf, irc_print and the two wake-ups use write.
Primitive(rec) == IF rec \in {TS, LOG} THEN "dprintf" ELSE "write"

\* C14: once fully_started is 1, every record appended to the pipe is
\* written with write().
C14_OnlyRawWrites ==
  [][(fully_started = 1 /\ Len(iopipe') > Len(iopipe))
       => Primitive(SubSeq(iopipe', Len(iopipe) + 1, Len(iopipe'))) = "write"]_vars

\* =================================================================== C15
\* The threads that are inside a send of the library.
Senders ==
  (IF pcMain = "sending" THEN 1 ELSE 0)
    + Cardinality({t \in ThreadIds : thr[t].pc = "sending"})

\* C15: at no time are two threads inside an outbound send at once.
C15_OneSender == Senders <= 1

\* =================================================================== C16
\* C16: carrying out /quit only sends: every step the foreground thread takes
\* on it leaves the client, its connection, the receive threads,
\* shutting_down and the way main left its loop as they were, and ends in
\* the send or back in main's loop.
C16_QuitOnlySends ==
  [][(cmd.name = "quit" /\ pcMain \in {"dispatch", "sending"}
        /\ pcMain' # pcMain /\ pcMain' # "aborted")
       => /\ pcMain' \in {"sending", "readline", "out"}
          /\ UNCHANGED <<client, newc, cstate, connected, thr, rx_thread_id,
                         shutting_down, outcome>>]_vars

\* QUIT is being sent on a connected client whose receive thread is in
\* irc_loop.
C16_Witness ==
  /\ pcMain = "sending"
  /\ cmd.name = "quit"
  /\ connected[client]
  /\ rx_thread_id \in ThreadIds
  /\ thr[rx_thread_id].pc = "loop"

\* =================================================================== C17
\* C17: of every read of the pipe that is not taken for the marker, all the
\* bytes other than zero bytes reach stdout, in the order read.
C17_AllBytesPrinted ==
  [][(pcMain = "poll" /\ pcMain' = "poll" /\ Len(iopipe') < Len(iopipe))
       => LET buf == SubSeq(iopipe, 1, Len(iopipe) - Len(iopipe'))
              NotNul(b) == b # "z"
          IN Printed(buf) = SelectSeq(buf, NotNul)]_vars

\* =================================================================== C18
\* The message types handle_irc_msg has a case for.
KnownTypes ==
  {"NUMERIC", "PRIVMSG", "NOTICE", "PING", "JOIN", "PART", "QUIT", "KICK",
   "NICK", "MODE", "ERROR", "TOPIC"}

\* C18: every call of handle_irc_msg leaves a record to write or a reply to
\* send; a numeric outside the handled set and a command outside the known
\* types leave the warning of the log callback, whatever debug_level is.
C18_NothingDropped ==
  [][\A t \in ThreadIds : \A m \in Msgs :
       RxRecv(t, m) =>
         /\ thr'[t].out # <<>> \/ thr'[t].tx # NoTx
         /\ (m.type = "NUMERIC" /\ m.num \notin {"001", "372", "404"})
              => thr'[t].out = <<TS, LOG>>
         /\ m.type \notin KnownTypes => thr'[t].out = <<TS, LOG>>]_vars

\* With debug_level 0, a receive thread back in irc_loop has the warning of a
\* message it had no case for still to write.
C18_Witness ==
  /\ debug_level = 0
  /\ \E t \in ThreadIds : thr[t].pc = "loop" /\ thr[t].out = <<TS, LOG>>

\* =================================================================== C19
\* C19: the callback hands a CTCP reply to the library only for a PING or
\* TIME payload carried on PRIVMSG, the PING reply carrying the data
\* received; a NOTICE makes it send nothing.
C19_CtcpDirection ==
  [][\A t \in ThreadIds : \A m \in Msgs :
       RxRecv(t, m) =>
         /\ thr'[t].tx.op = "ctcp_reply"
              => m.type = "PRIVMSG" /\ m.ctcp \in {"PING", "TIME"}
         /\ (m.type = "PRIVMSG" /\ m.ctcp = "PING")
              => thr'[t].tx = [op |-> "ctcp_reply", data |-> <<"PING">> \o m.body]
         /\ m.type = "NOTICE" => thr'[t].tx = NoTx]_vars

\* The callback is inside irc_client_ctcp_reply with a PING reply.
C19_Witness ==
  \E t \in ThreadIds :
    /\ thr[t].pc = "sending"
    /\ thr[t].tx.op = "ctcp_reply"
    /\ thr[t].tx.data = <<"PING", "hi">>

\* =================================================================== C20
\* C20: irc_client_login or irc_client_auth is called at most once on a
\* client, and never on a client on which a receive thread is running.
C20_LoginOnceBeforeThread ==
  /\ [](\A c \in ClientIds : auths[c] <= 1)
  /\ [][\A c \in ClientIds :
          auths'[c] > auths[c]
            => ~\E t \in ThreadIds : Alive(t) /\ thr[t].client = c]_vars

\* =================================================================== C21
\* C21: startup is connect, then login when a password was supplied, then
\* pthread_create. The receive thread of startup is created on a connected
\* client and, with a password, after the one login on it succeeded; a failed
\* connect is left through "connect_failed" and a failed login through
\* "auth_failed", each from its own step, and after either no receive thread
\* exists and the input loop is never entered.
C21_StartupOrder ==
  /\ [](outcome \in {"connect_failed", "auth_failed"} =>
          /\ \A t \in ThreadIds : thr[t].pc = "none"
          /\ rx_thread_id = NoThread
          /\ fully_started = 0
          /\ pcMain \in {"closepipes", "done"})
  /\ [][/\ (pcMain = "spawn" /\ pcMain' = "ready") =>
             /\ connected[client]
             /\ outcome = "none"
             /\ \/ password = "none" /\ auths[client] = 0
                \/ password = "zeroed" /\ auths[client] = 1
             /\ thr'[rx_thread_id'].client = client
        /\ (outcome' = "connect_failed" /\ outcome # "connect_failed") =>
             pcMain = "connect" /\ ~connected'[client]
        /\ (outcome' = "auth_failed" /\ outcome # "auth_failed") =>
             pcMain = "login" /\ connected[client] /\ password # "none"]_vars

\* The login has failed on a connected client: main has returned, no receive
\* thread was created and fully_started is 0.
C21_Witness ==
  /\ pcMain = "done"
  /\ outcome = "auth_failed"
  /\ connected[client]
  /\ auths[client] = 1
  /\ rx_thread_id = NoThread
  /\ fully_started = 0

\* =================================================================== C22
\* C22: when -f<chan> was given, the foreground channel is <chan> at the
\* moment main enters its input loop, with or without a password.
C22_ForegroundAtLoop ==
  [][(pcMain = "ready" /\ pcMain' = "readline" /\ fgchan # "")
       => fg_chan' = fgchan]_vars

\* =================================================================== C23
\* A /debug parameter that is a number from 0 to 10: digits only.
ValidLevel(a) ==
  LET s == Text(a)
  IN /\ s # <<>>
     /\ \A i \in 1..Len(s) : IsDigit(s[i])
     /\ AtoiFrom(s, 1, 0) \in 0..10

\* C23: debug_level is always within 0..10; carrying out a /debug whose
\* parameter is not a number from 0 to 10 leaves it as it was; and a DEBUG
\* call of the log callback leaves a record to write exactly when debug_level
\* is at least the call's sublevel.
C23_DebugLevelInRange ==
  /\ [](debug_level \in 0..10)
  /\ [][(pcMain = "dispatch" /\ cmd.name = "debug" /\ pcMain' # pcMain
          /\ ~ValidLevel(cmd.arg))
         => debug_level' = debug_level]_vars
  /\ [][\A t \in ThreadIds : \A lc \in LogCalls :
          (LibLog(t, lc) /\ lc.level = "DEBUG")
            => (thr'[t].out # <<>> <=> debug_level >= lc.sublevel)]_vars

\* =================================================================== C24
\* Main has gone past irc_client_connect, whatever its result: the client
\* was created and its flags were set before.
PastConnect ==
  /\ pcMain \notin {"new", "flags", "connect", "login"}
  /\ outcome \notin {"new_failed", "flags_failed"}

\* C24: once main has gone past the connect, on success and on failure alike,
\* the caller's copy of a supplied password is zero; and the step that calls
\* irc_client_login leaves it zero.
C24_PasswordZeroed ==
  /\ [](PastConnect => password # "secret")
  /\ [][(pcMain = "login" /\ auths' # auths) => password' # "secret"]_vars

\* =================================================================== C25
\* C25: the step that sets shutting_down reads exactly one byte from the
\* pipe, the zero byte, and by then the SIGINT handler has run or a receive
\* thread has written its termination byte and returned: bytes of a log
\* line, a printed message, a bell or a timestamp never set it, however the
\* reads cut them.
C25_MarkerOnlyFromWake ==
  [][(shutting_down = 0 /\ shutting_down' = 1) =>
       /\ iopipe # <<>>
       /\ iopipe[1] = "z"
       /\ iopipe' = Tail(iopipe)
       /\ \/ nSigint >= 1
          \/ \E t \in ThreadIds : thr[t].pc = "returned"]_vars

\* A message was received and its output went through the pipe, then the
\* receive thread returned and its byte, read alone, set shutting_down; no
\* SIGINT was delivered.
C25_Witness ==
  /\ shutting_down = 1
  /\ outcome = "requested"
  /\ nSigint = 0
  /\ nMsgs = 1
  /\ \E t \in ThreadIds : thr[t].pc = "returned"

\* =================================================================== C26
\* C26: while client_readline polls, 0 <= num_read <= len - 1 for the len it
\* was called with, num_read plus the remaining length is that len, and buf
\* stands num_read bytes into the caller's array; backspace or delete on an
\* empty line leaves the three as they were, and newline on an empty line
\* does not return; the value returned is -1 or a count from 1 to len - 1;
\* and the cell main's input[res] = 0 writes lies within the array.
C26_ReadlineInBounds ==
  /\ [](rl.pc = "poll" =>
          /\ rl.num_read \in 0..(RlLen - 1)
          /\ rl.num_read + rl.len = RlLen
          /\ rl.buf = rl.num_read)
  /\ [](rl.pc = "returned" =>
          /\ rl.res = 0 - 1 \/ rl.res \in 1..(RlLen - 1)
          /\ rl.res > 0 => rl.res \in DOMAIN rl.input)
  /\ [][(rl.pc = "poll" /\ rl.num_read = 0 /\ rl'.res # 0 - 1) =>
          \/ rl'.pc = "poll" /\ rl'.num_read = 1
          \/ /\ rl'.pc = "poll"
             /\ rl'.num_read = 0 /\ rl'.len = rl.len /\ rl'.buf = rl.buf]_vars

\* The line was filled to its last cell and returned: main has written its
\* zero byte at input[len - 1], after three letters.
C26_Witness ==
  /\ rl.pc = "idle"
  /\ rl.res = RlLen - 1
  /\ rl.input[RlLen - 1] = "z"
  /\ \A i \in 0..(RlLen - 2) : rl.input[i] = "a"

\* =================================================================== C27
\* The foreground thread is inside a write to the pipe for which the pipe has
\* no room: it is the pipe's only reader, so the write never returns.
FgBlocked ==
  /\ pcMain = "out"
  /\ fgOut # <<>>
  /\ Len(iopipe) + Len(Head(fgOut)) > PipeCap

\* C27: the foreground thread is never blocked in a write to a full pipe.
C27_ForegroundNeverBlocks == ~FgBlocked

\* =================================================================== C28
\* C28: the descriptor a receive thread's log or print call writes to is
\* never stdout: every record it writes goes into the pipe.
C28_RxWritesToPipe ==
  /\ [](\A t \in ThreadIds : thr[t].fd # "stdout")
  /\ [][\A t \in ThreadIds :
          (~thr[t].cancel /\ thr[t].out # <<>> /\ thr'[t].out = Tail(thr[t].out))
            => iopipe' = iopipe \o Head(thr[t].out)]_vars

\* =================================================================== C29
\* C29: the prompt client_readline prints on entry is the rendering of the
\* client's nickname, its host and the foreground channel as they are then.
C29_PromptCurrent ==
  [][FgPrompt =>
       client_prompt = Whole(Render(nick[client], host[client], fg_chan))]_vars

====
